---- MODULE Spec2Model ----
(***************************************************************************)
(* A model of VacDevice (custom_components/weback_vacuum/vacdevice.py):    *)
(* the status accessors over the raw robot_status mapping, the command     *)
(* methods that hand payloads to send_command, and the map loading and     *)
(* rendering path with its display collaborator.                           *)
(*                                                                         *)
(* VacDevice extends WebackWssCtrl (webackapi.py) and uses VacMap and      *)
(* VacMapDraw (vacmap.py).  Those two files are not part of the sources    *)
(* at hand; the protocol constants and the collaborators' behaviour are    *)
(* written here from the specification's description of them.              *)
(***************************************************************************)
EXTENDS Integers, Sequences, FiniteSets, TLC

VARIABLES
  robot_status,      \* self.robot_status: the raw status mapping
  map,               \* self.map: None or a VacMap
  map_image_buffer,  \* self.map_image_buffer: None or the encoded image
  map_camera,        \* self.map_camera: None or the registered camera
  pending,           \* load_maps calls suspended in get_reuse_map_by_id
  call,              \* the operation that ran last, with its arguments
  ret,               \* how that operation ended: Return(value) or Raise(exc)
  sent,              \* the payloads it handed to send_command, in order
  signals            \* the cameras it signalled, each with the image then held

vars == <<robot_status, map, map_image_buffer, map_camera, pending,
          call, ret, sent, signals>>

---------------------------------------------------------------------------
(* Python values.  A value whose Python type varies from case to case is   *)
(* tagged with its type, so that None, a string and a number are distinct  *)
(* and comparable.  Str holds a protocol string as a whole; Text holds a   *)
(* string by its characters, each its Unicode code point (ord), for the    *)
(* values int() has to parse.  A Python dict is a function over its keys,  *)
(* a Python list a sequence.                                               *)

None == [t |-> "None"]

Str(s) == [t |-> "str", s |-> s]

Text(cs) == [t |-> "str", chars |-> cs]

Num(i) == [t |-> "int", i |-> i]

Bool(b) == [t |-> "bool", b |-> b]

(* How a call ends. *)
Return(v) == [kind |-> "return", val |-> v]

Raise(e) == [kind |-> "raise", exc |-> e]

---------------------------------------------------------------------------
(* Class constants of WebackWssCtrl, named as VacDevice uses them. *)

ACTIVE_MAP_ID_PROP == "ACTIVE_MAP_ID_PROP"

IDLE_MODE == Str("IDLE")

CLEAN_MODE_AUTO == Str("AUTO_CLEAN")

CLEAN_MODE_SPOT == Str("SPOT_CLEAN")

CLEAN_MODE_STOP == Str("CLEAN_STOP")

CLEAN_MODE_ROOMS == Str("CLEAN_ROOMS")

CHARGE_MODE_RETURNING == Str("RETURN_CHARGE")

CHARGE_MODE_CHARGING == Str("CHARGING")

ROBOT_LOCATION_SOUND == Str("LOCATION_SOUND")

ROBOT_PLANNING_LOCATION == Str("PLAN_LOCATION")

ROBOT_PLANNING_RECT == Str("PLAN_RECT")

CLEANING_STATES ==
  {CLEAN_MODE_AUTO, CLEAN_MODE_SPOT, CLEAN_MODE_ROOMS, ROBOT_PLANNING_RECT}

CHARGING_STATES == {CHARGE_MODE_RETURNING, CHARGE_MODE_CHARGING}

FAN_DISABLED == Str("FAN_DISABLED")

FAN_SPEED_QUIET == Str("FAN_QUIET")

FAN_SPEED_NORMAL == Str("FAN_NORMAL")

FAN_SPEED_HIGH == Str("FAN_HIGH")

FAN_SPEEDS == {FAN_SPEED_QUIET, FAN_SPEED_NORMAL, FAN_SPEED_HIGH}

MOP_DISABLED == Str("MOP_DISABLED")

MOP_SPEED_LOW == Str("MOP_LOW")

MOP_SPEED_NORMAL == Str("MOP_NORMAL")

MOP_SPEED_HIGH == Str("MOP_HIGH")

MOP_SPEEDS == {MOP_SPEED_LOW, MOP_SPEED_NORMAL, MOP_SPEED_HIGH}

SWITCH_VALUES == {Str("on"), Str("off")}

VACUUM_ON == Str("VACUUM_ON")

MOP_ON == Str("MOP_ON")

NO_FAN_NO_MOP == Str("NO_FAN_NO_MOP")

(* Payload field names. *)
ASK_STATUS == "status"

SET_FAN_SPEED == "set_fan_speed"

GOTO_POINT == "goto_point"

RECTANGLE_INFO == "rectangle"

VOICE_SWITCH == "voice_switch"

UNDISTURB_MODE == "undisturb_mode"

SELECTED_ZONE == "selected_zone"

PLANNING_RECT_POINT_NUM == "point_num"

PLANNING_RECT_X == "X"

PLANNING_RECT_Y == "Y"

---------------------------------------------------------------------------
(* Python primitives the accessors use. *)

(* d[k]: the value, or KeyError when k is not a key of d. *)
Subscript(d, k) == IF k \in DOMAIN d THEN Return(d[k]) ELSE Raise("KeyError")

(* d.get(k): the value, or None. *)
DictGet(d, k) == IF k \in DOMAIN d THEN d[k] ELSE None

(* The characters int() skips around a number: tab, newline, vertical     *)
(* tab, form feed, carriage return, the blank, and the Unicode spaces      *)
(* (NEL, no-break space, ogham space, en quad to hair space, line and      *)
(* paragraph separator, narrow no-break, medium mathematical and           *)
(* ideographic space).                                                     *)
Whitespace ==
  (9..13) \cup {32, 133, 160, 5760} \cup (8192..8202)
  \cup {8232, 8233, 8239, 8287, 12288}

PlusSign == {43}

MinusSign == {45}

Underscore == {95}

(* The zero of every run of Unicode decimal digits (category Nd): ASCII    *)
(* at 48, Arabic-Indic at 1632, ..., fullwidth at 65296, ...; the ten      *)
(* digits of a run follow its zero in order.                               *)
DecimalZeros ==
  {48, 1632, 1776, 1984, 2406, 2534, 2662, 2790, 2918, 3046, 3174,
   3302, 3430, 3558, 3664, 3792, 3872, 4160, 4240, 6112, 6160, 6470,
   6608, 6784, 6800, 6992, 7088, 7232, 7248, 42528, 43216, 43264,
   43472, 43504, 43600, 44016, 65296, 66720, 68912, 69734, 69872,
   69942, 70096, 70384, 70736, 70864, 71248, 71360, 71472, 71904,
   72016, 72784, 73040, 73120, 92768, 92864, 93008, 120782, 120792,
   120802, 120812, 120822, 123200, 123632, 125264, 130032}

IsDecimal(c) == \E z \in DecimalZeros : c \in z..(z + 9)

(* The value of a decimal digit. *)
Digit(c) == c - (CHOOSE z \in DecimalZeros : c \in z..(z + 9))

(* str.strip() on a sequence of characters. *)
RECURSIVE LStrip(_)
LStrip(cs) ==
  IF cs # <<>> /\ Head(cs) \in Whitespace THEN LStrip(Tail(cs)) ELSE cs

RECURSIVE RStrip(_)
RStrip(cs) ==
  IF cs # <<>> /\ cs[Len(cs)] \in Whitespace
  THEN RStrip(SubSeq(cs, 1, Len(cs) - 1))
  ELSE cs

Strip(cs) == RStrip(LStrip(cs))

(* The digits of an int() literal: decimal digits, single underscores      *)
(* allowed between two digits only.                                        *)
IsDigits(ds) ==
  /\ ds # <<>>
  /\ \A i \in 1..Len(ds) : IsDecimal(ds[i]) \/ ds[i] \in Underscore
  /\ ds[1] \notin Underscore
  /\ ds[Len(ds)] \notin Underscore
  /\ \A i \in 1..(Len(ds) - 1) :
       ~(ds[i] \in Underscore /\ ds[i + 1] \in Underscore)

RECURSIVE DigitsValue(_, _)
DigitsValue(ds, acc) ==
  IF ds = <<>> THEN acc
  ELSE IF Head(ds) \in Underscore THEN DigitsValue(Tail(ds), acc)
  ELSE DigitsValue(Tail(ds), 10 * acc + Digit(Head(ds)))

(* An int() that answers 0 for a text it cannot parse. *)
py_int_Lenient(v) ==
  IF v.t = "int" THEN Return(v)
  ELSE IF "chars" \in DOMAIN v /\ IsDigits(Strip(v.chars))
       THEN Return(Num(DigitsValue(Strip(v.chars), 0)))
       ELSE Return(Num(0))

(* sys.int_info.default_max_str_digits: the most digits int() converts.    *)
default_max_str_digits == 4300

(* The digits int() counts against that limit: every digit of the literal, *)
(* leading zeros included, its underscores left out.                       *)
DigitCount(ds) == Len(SelectSeq(ds, LAMBDA c : c \notin Underscore))

(* int(v) for an int or a str: an int is itself; a string is stripped,     *)
(* takes one optional sign and must then be digits, no more of them than   *)
(* the limit, else ValueError.                                             *)
py_int(v) ==
  IF v.t = "int" THEN Return(v)
  ELSE IF v.t = "bool" THEN Return(Num(IF v.b THEN 1 ELSE 0))
  ELSE IF v.t = "str" /\ "chars" \in DOMAIN v THEN
    LET s      == Strip(v.chars)
        signed == s # <<>> /\ Head(s) \in PlusSign \cup MinusSign
        ds     == IF signed THEN Tail(s) ELSE s
    IN  IF IsDigits(ds) /\ DigitCount(ds) <= default_max_str_digits
        THEN Return(Num(IF signed /\ Head(s) \in MinusSign
                        THEN 0 - DigitsValue(ds, 0)
                        ELSE DigitsValue(ds, 0)))
        ELSE Raise("ValueError")
  ELSE IF v.t = "str" THEN Raise("ValueError")
  ELSE Raise("TypeError")

---------------------------------------------------------------------------
(* Status accessors: each a function of the status mapping rs. *)

current_mode(rs) ==
  IF "working_status" \in DOMAIN rs
  THEN Subscript(rs, "working_status")
  ELSE Return(IDLE_MODE)

raw_status(rs) == Return(rs)

is_cleaning(rs) ==
  LET m == current_mode(rs)
  IN  IF m.kind = "raise" THEN m ELSE Return(Bool(m.val \in CLEANING_STATES))

is_available(rs) ==
  LET connected == DictGet(rs, "connected")
  IN  Return(Bool(IF connected # None THEN connected = Str("true") ELSE FALSE))

is_charging(rs) ==
  LET m == current_mode(rs)
  IN  IF m.kind = "raise" THEN m ELSE Return(Bool(m.val \in CHARGING_STATES))

error_info(rs) ==
  IF "error_info" \in DOMAIN rs
  THEN Subscript(rs, "error_info")
  ELSE Return(None)

(* A battery_level that subscripts without looking for the key first. *)
battery_level_NoDefault(rs) ==
  LET v == Subscript(rs, "battery_level")
  IN  IF v.kind = "raise" THEN v ELSE py_int(v.val)

battery_level(rs) ==
  IF "battery_level" \in DOMAIN rs
  THEN LET v == Subscript(rs, "battery_level")
       IN  IF v.kind = "raise" THEN v ELSE py_int(v.val)
  ELSE Return(Num(0))

fan_status(rs) ==
  IF "fan_status" \in DOMAIN rs
  THEN Subscript(rs, "fan_status")
  ELSE Return(None)

mop_status(rs) ==
  IF "water_level" \in DOMAIN rs
  THEN Subscript(rs, "water_level")
  ELSE Return(None)

fan_speed_list == Return(<<FAN_SPEED_QUIET, FAN_SPEED_NORMAL, FAN_SPEED_HIGH>>)

mop_level_list == Return(<<MOP_SPEED_LOW, MOP_SPEED_NORMAL, MOP_SPEED_HIGH>>)

clean_time(rs) ==
  IF "clean_time" \in DOMAIN rs
  THEN Subscript(rs, "clean_time")
  ELSE Return(Num(0))

clean_area(rs) ==
  IF "clean_area" \in DOMAIN rs
  THEN Subscript(rs, "clean_area")
  ELSE Return(Num(0))

(* The guard `"fan_status" and "water_level" in self.robot_status` is the  *)
(* Python expression ("fan_status") and ("water_level" in robot_status):   *)
(* a non-empty string is true, so only water_level is looked for.          *)
vacuum_or_mop(rs) ==
  IF "water_level" \in DOMAIN rs
  THEN LET f == Subscript(rs, "fan_status")
           w == Subscript(rs, "water_level")
       IN  IF f.kind = "raise" THEN f
           ELSE IF f.val = FAN_DISABLED
                THEN IF w.kind = "raise" THEN w
                     ELSE IF w.val # MOP_DISABLED
                          THEN Return(MOP_ON)
                          ELSE Return(VACUUM_ON)
                ELSE Return(VACUUM_ON)
  ELSE Return(NO_FAN_NO_MOP)

---------------------------------------------------------------------------
(* Commands.  Each is a function of the status mapping, its arguments and  *)
(* the transport's answer, and yields the payloads handed to send_command  *)
(* together with how the call ends.                                        *)

NothingSent(r) == [sent |-> <<>>, ret |-> r]

(* await self.send_command(name, sub_type, payload): the transport takes   *)
(* the payload, and either delivers it or fails; a failure is raised into  *)
(* the caller.                                                             *)
send_command(payload, delivered) ==
  [sent |-> <<payload>>,
   ret  |-> IF delivered THEN Return(None) ELSE Raise("CollaboratorFailure")]

(* A set_fan_water_speed that sends whatever the device state is. *)
set_fan_water_speed_Unguarded(rs, speed, delivered) ==
  IF speed \notin FAN_SPEEDS /\ speed \notin MOP_SPEEDS
  THEN NothingSent(Return(None))
  ELSE send_command(SET_FAN_SPEED :> speed, delivered)

set_fan_water_speed(rs, speed, delivered) ==
  LET cleaning == is_cleaning(rs)
  IN  IF cleaning.kind = "raise" THEN NothingSent(cleaning)
      ELSE IF ~cleaning.val.b THEN NothingSent(Return(None))
      ELSE IF speed \notin FAN_SPEEDS /\ speed \notin MOP_SPEEDS
           THEN NothingSent(Return(None))
      ELSE send_command(SET_FAN_SPEED :> speed, delivered)

turn_on(delivered) == send_command(ASK_STATUS :> CLEAN_MODE_AUTO, delivered)

turn_off(delivered) == send_command(ASK_STATUS :> CHARGE_MODE_RETURNING, delivered)

pause(delivered) == send_command(ASK_STATUS :> CLEAN_MODE_STOP, delivered)

clean_spot(delivered) == send_command(ASK_STATUS :> CLEAN_MODE_SPOT, delivered)

locate(delivered) == send_command(ASK_STATUS :> ROBOT_LOCATION_SOUND, delivered)

return_to_base(delivered) ==
  send_command(ASK_STATUS :> CHARGE_MODE_RETURNING, delivered)

goto(point, delivered) ==
  send_command((ASK_STATUS :> ROBOT_PLANNING_LOCATION) @@ (GOTO_POINT :> point),
               delivered)

clean_rect(rectangle, delivered) ==
  send_command((ASK_STATUS :> ROBOT_PLANNING_RECT) @@ (RECTANGLE_INFO :> rectangle),
               delivered)

(* A voice_mode that forwards any state. *)
voice_mode_Unchecked(state, delivered) ==
  send_command(VOICE_SWITCH :> state, delivered)

voice_mode(state, delivered) ==
  IF state \in SWITCH_VALUES
  THEN send_command(VOICE_SWITCH :> state, delivered)
  ELSE NothingSent(Return(None))

undisturb_mode(state, delivered) ==
  IF state \in SWITCH_VALUES
  THEN send_command(UNDISTURB_MODE :> state, delivered)
  ELSE NothingSent(Return(None))

clean_room(room_ids_list, delivered) ==
  LET room_data ==
        [i \in 1..Len(room_ids_list) |-> [room_id |-> room_ids_list[i]]]
  IN  send_command((ASK_STATUS :> CLEAN_MODE_ROOMS) @@ (SELECTED_ZONE :> room_data),
                   delivered)

(* int(x / 10) for an int x: the true quotient, then int() drops its       *)
(* fraction, so the result is rounded toward zero.                         *)
Tenth(x) == IF x >= 0 THEN x \div 10 ELSE 0 - ((0 - x) \div 10)

RECURSIVE box_x(_)
box_x(bounding) ==
  IF bounding = <<>> THEN <<>>
  ELSE LET box == Head(bounding)
       IN  <<Tenth(box[1]), Tenth(box[1]), Tenth(box[3]), Tenth(box[3])>>
           \o box_x(Tail(bounding))

(* A box_y that walks the corners as (y1, y1, y2, y2). *)
RECURSIVE box_y_Unturned(_)
box_y_Unturned(bounding) ==
  IF bounding = <<>> THEN <<>>
  ELSE LET box == Head(bounding)
       IN  <<Tenth(box[2]), Tenth(box[2]), Tenth(box[4]), Tenth(box[4])>>
           \o box_y_Unturned(Tail(bounding))

RECURSIVE box_y(_)
box_y(bounding) ==
  IF bounding = <<>> THEN <<>>
  ELSE LET box == Head(bounding)
       IN  <<Tenth(box[2]), Tenth(box[4]), Tenth(box[4]), Tenth(box[2])>>
           \o box_y(Tail(bounding))

clean_zone(bounding, delivered) ==
  LET num_boxes == Len(bounding)
  IN  send_command((ASK_STATUS :> ROBOT_PLANNING_RECT)
                   @@ (PLANNING_RECT_POINT_NUM :> num_boxes * 4)
                   @@ (PLANNING_RECT_X :> box_x(bounding))
                   @@ (PLANNING_RECT_Y :> box_y(bounding)),
                   delivered)

---------------------------------------------------------------------------
(* Maps.  A raw map payload is whole or lacks a required sub-structure;    *)
(* VacMap(map_data) builds the model from a whole payload and fails on any *)
(* other; VacMapDraw composes the layers of a model into one image.        *)

MapData(id, whole) == [t |-> "map_data", id |-> id, whole |-> whole]

VacMap(map_data) ==
  IF map_data.whole
  THEN Return([t |-> "VacMap", data |-> map_data])
  ELSE Raise("DecodeFailure")

(* The PNG bytes of the image drawn from a model: base layer, charger,      *)
(* path and robot position.                                                *)
Png(vac_map) == [t |-> "png", of |-> vac_map]

(* trigger_map_camera_update: the registered camera, if any, is told to    *)
(* update; it then finds the image the controller holds at that moment.    *)
trigger_map_camera_update(camera, held) ==
  IF camera # None THEN <<[camera |-> camera, image |-> held]>> ELSE <<>>

(* A render_map that tells the camera before it stores the new image. *)
render_map_SignalFirst(vac_map, buffer, camera, broken) ==
  IF vac_map = None
  THEN [ret |-> Return(Bool(FALSE)), map_image_buffer |-> buffer, signals |-> <<>>]
  ELSE IF broken
  THEN [ret |-> Raise("RenderFailure"), map_image_buffer |-> buffer, signals |-> <<>>]
  ELSE [ret |-> Return(Bool(TRUE)),
        map_image_buffer |-> Png(vac_map),
        signals |-> IF camera # None
                    THEN trigger_map_camera_update(camera, buffer)
                    ELSE <<>>]

(* render_map on the model, image buffer and camera held; broken tells     *)
(* whether drawing and encoding (lines 79 to 88) raise.                    *)
render_map(vac_map, buffer, camera, broken) ==
  IF vac_map = None
  THEN [ret |-> Return(Bool(FALSE)), map_image_buffer |-> buffer, signals |-> <<>>]
  ELSE IF broken
  THEN [ret |-> Raise("RenderFailure"), map_image_buffer |-> buffer, signals |-> <<>>]
  ELSE LET img_bytes == Png(vac_map)
       IN  [ret |-> Return(Bool(TRUE)),
            map_image_buffer |-> img_bytes,
            signals |-> IF camera # None
                        THEN trigger_map_camera_update(camera, img_bytes)
                        ELSE <<>>]

(* load_maps from the point where get_reuse_map_by_id has answered with    *)
(* fetched: a raised failure, nothing, or a payload.                       *)
load_maps_fetched(vac_map, buffer, camera, fetched, broken) ==
  LET same(r) == [ret |-> r, map |-> vac_map,
                  map_image_buffer |-> buffer, signals |-> <<>>]
  IN  IF fetched.kind = "raise" THEN same(fetched)
      ELSE IF fetched.val = None THEN same(Return(None))
      ELSE LET built == VacMap(fetched.val)
           IN  IF built.kind = "raise" THEN same(built)
               ELSE LET r == render_map(built.val, buffer, camera, broken)
                    IN  [ret |-> IF r.ret.kind = "raise" THEN r.ret
                                 ELSE Return(None),
                         map |-> built.val,
                         map_image_buffer |-> r.map_image_buffer,
                         signals |-> r.signals]

(* BaseException and the classes that derive from it and not from         *)
(* Exception; `except Exception` catches every class but these.            *)
NotExceptions ==
  {"BaseException", "BaseExceptionGroup", "CancelledError",
   "GeneratorExit", "KeyboardInterrupt", "SystemExit"}

IsException(exc) == exc \notin NotExceptions

(* A watch_state that lets the failure through. *)
watch_state_Reraising(refreshed) == refreshed

(* watch_state: a refresh_handler failure is caught and logged. *)
watch_state(refreshed) ==
  IF refreshed.kind = "raise" /\ IsException(refreshed.exc)
  THEN Return(None)
  ELSE refreshed

---------------------------------------------------------------------------
(* What the base class's __init__ leaves in robot_status: None, or a       *)
(* status it has already received.                                         *)
BaseStatus == {None, "working_status" :> CHARGE_MODE_CHARGING}

(* The controller after __init__(thing_status): no map, no image, no       *)
(* camera, and robot_status set from the HTTP API's thing_status only      *)
(* when the base class left it None.                                       *)
Constructed(base_status, thing_status) ==
  /\ robot_status = IF base_status = None THEN thing_status ELSE base_status
  /\ map = None
  /\ map_image_buffer = None
  /\ map_camera = None
  /\ pending = <<>>
  /\ call = [op |-> "__init__", args |-> <<>>]
  /\ ret = Return(None)
  /\ sent = <<>>
  /\ signals = <<>>

(* An operation that only computes: it records how it ended. *)
Computes(op, args, r) ==
  /\ call' = [op |-> op, args |-> args]
  /\ ret' = r
  /\ sent' = <<>>
  /\ signals' = <<>>
  /\ UNCHANGED <<robot_status, map, map_image_buffer, map_camera, pending>>

---------------------------------------------------------------------------
(* Reading the status properties. *)

Read_current_mode == Computes("current_mode", <<>>, current_mode(robot_status))

Read_raw_status == Computes("raw_status", <<>>, raw_status(robot_status))

Read_is_cleaning == Computes("is_cleaning", <<>>, is_cleaning(robot_status))

Read_is_available == Computes("is_available", <<>>, is_available(robot_status))

Read_is_charging == Computes("is_charging", <<>>, is_charging(robot_status))

Read_error_info == Computes("error_info", <<>>, error_info(robot_status))

Read_battery_level == Computes("battery_level", <<>>, battery_level(robot_status))

Read_fan_status == Computes("fan_status", <<>>, fan_status(robot_status))

Read_mop_status == Computes("mop_status", <<>>, mop_status(robot_status))

Read_fan_speed_list == Computes("fan_speed_list", <<>>, fan_speed_list)

Read_mop_level_list == Computes("mop_level_list", <<>>, mop_level_list)

Read_clean_time == Computes("clean_time", <<>>, clean_time(robot_status))

Read_clean_area == Computes("clean_area", <<>>, clean_area(robot_status))

Read_vacuum_or_mop == Computes("vacuum_or_mop", <<>>, vacuum_or_mop(robot_status))

---------------------------------------------------------------------------
(* Status mappings the accessors are read on: every subset of the known    *)
(* keys with a few values each, and battery_level texts of bounded length. *)

MaxLen == 3

(* The characters 7, 0, a, -, +, blank, _, newline and fullwidth 7. *)
Alphabet == {55, 48, 97, 45, 43, 32, 95, 10, 65303}

Texts == UNION {[1..k -> Alphabet] : k \in 0..MaxLen}

Absent == [t |-> "absent"]

Present(r) == [k \in {j \in DOMAIN r : r[j] # Absent} |-> r[k]]

GeneralStatus ==
  {Present(r) : r \in
    [working_status : {Absent, CLEAN_MODE_AUTO, CHARGE_MODE_CHARGING, Str("Unknown")},
     connected      : {Absent, Str("true"), Str("false"), Bool(TRUE)},
     error_info     : {Absent, Str("NoError")},
     battery_level  : {Absent, Num(55), Text(<<55, 97>>)},
     fan_status     : {Absent, FAN_DISABLED, FAN_SPEED_NORMAL},
     water_level    : {Absent, MOP_DISABLED, MOP_SPEED_LOW},
     clean_time     : {Absent, Num(12)},
     clean_area     : {Absent, Num(30)}]}

BatteryStatus ==
  {Present([working_status |-> w, battery_level |-> Text(cs)]) :
     w \in {Absent, CLEAN_MODE_AUTO}, cs \in Texts}

StatusInputs == GeneralStatus \cup BatteryStatus

InitStatus ==
  \E base_status \in BaseStatus, thing_status \in StatusInputs :
    Constructed(base_status, thing_status)

NextStatus ==
  \/ Read_current_mode
  \/ Read_raw_status
  \/ Read_is_cleaning
  \/ Read_is_available
  \/ Read_is_charging
  \/ Read_error_info
  \/ Read_battery_level
  \/ Read_fan_status
  \/ Read_mop_status
  \/ Read_fan_speed_list
  \/ Read_mop_level_list
  \/ Read_clean_time
  \/ Read_clean_area
  \/ Read_vacuum_or_mop

SpecStatus == InitStatus /\ [][NextStatus]_vars

---------------------------------------------------------------------------
(* The controller under commands and status pushes. *)

(* A command: it records what it sent and how it ended, and changes        *)
(* nothing the controller holds.                                           *)
Performs(op, args, r) ==
  /\ call' = [op |-> op, args |-> args]
  /\ ret' = r.ret
  /\ sent' = r.sent
  /\ signals' = <<>>
  /\ UNCHANGED <<robot_status, map, map_image_buffer, map_camera, pending>>

(* The transport reports a new status: the mapping is replaced whole. *)
pushStatus(rawFields) ==
  /\ robot_status' = rawFields
  /\ call' = [op |-> "pushStatus", args |-> <<rawFields>>]
  /\ ret' = Return(None)
  /\ sent' = <<>>
  /\ signals' = <<>>
  /\ UNCHANGED <<map, map_image_buffer, map_camera, pending>>

MaxRooms == 2

MaxBoxes == 2

PushedStatus ==
  {<<>>, "connected" :> Str("true")}
  \cup {"working_status" :> m :
          m \in {CLEAN_MODE_AUTO, ROBOT_PLANNING_RECT, CHARGE_MODE_CHARGING,
                 IDLE_MODE, Str("Unknown")}}

SpeedInputs == FAN_SPEEDS \cup MOP_SPEEDS \cup {FAN_DISABLED, Str("Turbo")}

StateInputs == SWITCH_VALUES \cup {Str("ON"), Str("toggle")}

PointInputs == {Str("120,45")}

RectangleInputs == {Str("0,0,20,30")}

RoomIds == {1, 2}

RoomLists == UNION {[1..n -> RoomIds] : n \in 0..MaxRooms}

BoxInputs ==
  {<<x1, y1, 20, y2>> : x1 \in {0, 0 - 15}, y1 \in {0, 8}, y2 \in {30, 0 - 27}}

BoxLists == UNION {[1..n -> BoxInputs] : n \in 0..MaxBoxes}

Do_pushStatus == \E rawFields \in PushedStatus : pushStatus(rawFields)

Do_set_fan_water_speed ==
  \E speed \in SpeedInputs, delivered \in BOOLEAN :
    Performs("set_fan_water_speed", <<speed>>,
             set_fan_water_speed(robot_status, speed, delivered))

Do_turn_on == \E delivered \in BOOLEAN : Performs("turn_on", <<>>, turn_on(delivered))

Do_turn_off == \E delivered \in BOOLEAN : Performs("turn_off", <<>>, turn_off(delivered))

Do_pause == \E delivered \in BOOLEAN : Performs("pause", <<>>, pause(delivered))

Do_clean_spot ==
  \E delivered \in BOOLEAN : Performs("clean_spot", <<>>, clean_spot(delivered))

Do_locate == \E delivered \in BOOLEAN : Performs("locate", <<>>, locate(delivered))

Do_return_to_base ==
  \E delivered \in BOOLEAN :
    Performs("return_to_base", <<>>, return_to_base(delivered))

Do_goto ==
  \E point \in PointInputs, delivered \in BOOLEAN :
    Performs("goto", <<point>>, goto(point, delivered))

Do_clean_rect ==
  \E rectangle \in RectangleInputs, delivered \in BOOLEAN :
    Performs("clean_rect", <<rectangle>>, clean_rect(rectangle, delivered))

Do_voice_mode ==
  \E state \in StateInputs, delivered \in BOOLEAN :
    Performs("voice_mode", <<state>>, voice_mode(state, delivered))

Do_undisturb_mode ==
  \E state \in StateInputs, delivered \in BOOLEAN :
    Performs("undisturb_mode", <<state>>, undisturb_mode(state, delivered))

Do_clean_room ==
  \E room_ids_list \in RoomLists, delivered \in BOOLEAN :
    Performs("clean_room", <<room_ids_list>>, clean_room(room_ids_list, delivered))

Do_clean_zone ==
  \E bounding \in BoxLists, delivered \in BOOLEAN :
    Performs("clean_zone", <<bounding>>, clean_zone(bounding, delivered))

Init ==
  \E base_status \in BaseStatus, thing_status \in PushedStatus :
    Constructed(base_status, thing_status)

Next ==
  \/ Do_pushStatus
  \/ Do_set_fan_water_speed
  \/ Do_turn_on
  \/ Do_turn_off
  \/ Do_pause
  \/ Do_clean_spot
  \/ Do_locate
  \/ Do_return_to_base
  \/ Do_goto
  \/ Do_clean_rect
  \/ Do_voice_mode
  \/ Do_undisturb_mode
  \/ Do_clean_room
  \/ Do_clean_zone

Spec == Init /\ [][Next]_vars

---------------------------------------------------------------------------
(* The controller loading and rendering maps. *)

MaxInflight == 2

MapIds == {"m1", "m2"}

Cameras == {Str("camera1"), Str("camera2")}

MapStatus == {<<>>} \cup {ACTIVE_MAP_ID_PROP :> Str(id) : id \in MapIds}

(* What get_reuse_map_by_id can answer for a map id. *)
Fetched(map_id) ==
  {Return(MapData(map_id.s, whole)) : whole \in BOOLEAN}
  \cup {Return(None), Raise("CollaboratorFailure")}

(* What refresh_handler can end with. *)
Refreshed ==
  {Return(None), Raise("CollaboratorFailure"), Raise("ValueError"),
   Raise("KeyError"), Raise("CancelledError"), Raise("BaseException")}

Do_pushMapStatus == \E rawFields \in MapStatus : pushStatus(rawFields)

Do_watch_state ==
  \E refreshed \in Refreshed :
    Computes("watch_state", <<refreshed>>, watch_state(refreshed))

(* load_maps up to its await: without an active map id it returns False;   *)
(* with one it asks for that map and is suspended until the answer.        *)
Do_load_maps ==
  IF ACTIVE_MAP_ID_PROP \notin DOMAIN robot_status
  THEN Computes("load_maps", <<None, Return(None), FALSE>>, Return(Bool(FALSE)))
  ELSE /\ Len(pending) < MaxInflight
       /\ pending' = Append(pending, robot_status[ACTIVE_MAP_ID_PROP])
       /\ call' = [op |-> "load_maps_await",
                   args |-> <<robot_status[ACTIVE_MAP_ID_PROP]>>]
       /\ ret' = Return(None)
       /\ sent' = <<>>
       /\ signals' = <<>>
       /\ UNCHANGED <<robot_status, map, map_image_buffer, map_camera>>

(* A suspended load_maps gets its answer and runs to its end. *)
Do_load_maps_fetched ==
  \E i \in 1..Len(pending), broken \in BOOLEAN :
    \E fetched \in Fetched(pending[i]) :
      LET r == load_maps_fetched(map, map_image_buffer, map_camera, fetched, broken)
      IN  /\ pending' = [j \in 1..(Len(pending) - 1) |->
                           IF j < i THEN pending[j] ELSE pending[j + 1]]
          /\ map' = r.map
          /\ map_image_buffer' = r.map_image_buffer
          /\ call' = [op |-> "load_maps", args |-> <<pending[i], fetched, broken>>]
          /\ ret' = r.ret
          /\ sent' = <<>>
          /\ signals' = r.signals
          /\ UNCHANGED <<robot_status, map_camera>>

Do_render_map ==
  \E broken \in BOOLEAN :
    LET r == render_map(map, map_image_buffer, map_camera, broken)
    IN  /\ map_image_buffer' = r.map_image_buffer
        /\ call' = [op |-> "render_map", args |-> <<broken>>]
        /\ ret' = r.ret
        /\ sent' = <<>>
        /\ signals' = r.signals
        /\ UNCHANGED <<robot_status, map, map_camera, pending>>

Do_register_map_camera ==
  \E camera \in Cameras \cup {None} :
    /\ map_camera' = camera
    /\ call' = [op |-> "register_map_camera", args |-> <<camera>>]
    /\ ret' = Return(None)
    /\ sent' = <<>>
    /\ signals' = <<>>
    /\ UNCHANGED <<robot_status, map, map_image_buffer, pending>>

Do_trigger_map_camera_update ==
  /\ call' = [op |-> "trigger_map_camera_update", args |-> <<>>]
  /\ ret' = Return(None)
  /\ sent' = <<>>
  /\ signals' = trigger_map_camera_update(map_camera, map_image_buffer)
  /\ UNCHANGED <<robot_status, map, map_image_buffer, map_camera, pending>>

InitMap ==
  \E base_status \in BaseStatus, thing_status \in MapStatus :
    Constructed(base_status, thing_status)

NextMap ==
  \/ Do_pushMapStatus
  \/ Do_watch_state
  \/ Do_load_maps
  \/ Do_load_maps_fetched
  \/ Do_render_map
  \/ Do_register_map_camera
  \/ Do_trigger_map_camera_update

SpecMap == InitMap /\ [][NextMap]_vars

---------------------------------------------------------------------------
(* Properties of the status accessors, checked under SpecStatus. *)

Has(k) == k \in DOMAIN robot_status

(* C1: for every status mapping, vacuum_or_mop returns MOP_ON exactly when *)
(* fan_status and water_level are both present, fan_status is the          *)
(* fan-disabled sentinel and water_level is not the mop-disabled sentinel; *)
(* VACUUM_ON for every other mapping holding both keys; and NO_FAN_NO_MOP, *)
(* without raising, whenever either key is absent.                         *)
C1_VacuumOrMop ==
  call.op = "vacuum_or_mop" =>
    ret = Return(IF Has("fan_status") /\ Has("water_level")
                 THEN IF /\ robot_status["fan_status"] = FAN_DISABLED
                         /\ robot_status["water_level"] # MOP_DISABLED
                      THEN MOP_ON
                      ELSE VACUUM_ON
                 ELSE NO_FAN_NO_MOP)

(* C7: for every status mapping, the empty one and every subset of the     *)
(* known keys included, a status accessor whose backing key is absent does *)
(* not raise and returns its default: mode IDLE, is_cleaning, is_charging  *)
(* and is_available false, error_info, fan_status and mop_status None,     *)
(* battery_level, clean_time and clean_area 0.                             *)
C7_DefaultsWhenAbsent ==
  /\ call.op = "current_mode" /\ ~Has("working_status") => ret = Return(IDLE_MODE)
  /\ call.op = "is_cleaning" /\ ~Has("working_status") => ret = Return(Bool(FALSE))
  /\ call.op = "is_charging" /\ ~Has("working_status") => ret = Return(Bool(FALSE))
  /\ call.op = "is_available" /\ ~Has("connected") => ret = Return(Bool(FALSE))
  /\ call.op = "error_info" /\ ~Has("error_info") => ret = Return(None)
  /\ call.op = "battery_level" /\ ~Has("battery_level") => ret = Return(Num(0))
  /\ call.op = "fan_status" /\ ~Has("fan_status") => ret = Return(None)
  /\ call.op = "mop_status" /\ ~Has("water_level") => ret = Return(None)
  /\ call.op = "clean_time" /\ ~Has("clean_time") => ret = Return(Num(0))
  /\ call.op = "clean_area" /\ ~Has("clean_area") => ret = Return(Num(0))

(* battery_level has been read on the empty mapping. *)
C7_Witness ==
  /\ DOMAIN robot_status = {}
  /\ call.op = "battery_level"
  /\ ret = Return(Num(0))

(* What a text denotes, stated apart from int(): an integer string is one  *)
(* optional sign followed by one or more decimal digits, no more of them   *)
(* than the interpreter converts.                                          *)
IntegerString(cs) ==
  /\ cs # <<>>
  /\ LET ds == IF cs[1] \in {43, 45} THEN Tail(cs) ELSE cs
     IN  /\ ds # <<>>
         /\ Len(ds) <= default_max_str_digits
         /\ \A i \in 1..Len(ds) : IsDecimal(ds[i])

RECURSIVE Decimal(_)
Decimal(ds) ==
  IF ds = <<>> THEN 0
  ELSE 10 * Decimal(SubSeq(ds, 1, Len(ds) - 1)) + Digit(ds[Len(ds)])

Denoted(cs) ==
  IF cs[1] = 45 THEN 0 - Decimal(Tail(cs))
  ELSE IF cs[1] = 43 THEN Decimal(Tail(cs))
  ELSE Decimal(cs)

(* The text without the characters int() may skip: white space and        *)
(* underscores.                                                            *)
Squeezed(cs) == SelectSeq(cs, LAMBDA c : c \notin Whitespace \cup {95})

(* C8: when battery_level is present, reading it returns the integer the   *)
(* value is (an int) or denotes (an integer string), and ends in an error, *)
(* never in 0 or any other number, when the value is a text that denotes   *)
(* no integer, such as "7a".                                               *)
C8_BatteryLevelParsed ==
  call.op = "battery_level" /\ Has("battery_level") =>
    LET v == robot_status["battery_level"]
    IN  /\ v.t = "int" => ret = Return(v)
        /\ v.t = "str" /\ IntegerString(v.chars) =>
             ret = Return(Num(Denoted(v.chars)))
        /\ v.t = "str" /\ ~IntegerString(Squeezed(v.chars)) =>
             ret = Raise("ValueError")
        /\ v.t = "str" /\ ret.kind = "return" =>
             ret.val = Num(Denoted(Squeezed(v.chars)))

(* battery_level has been read on a mapping whose battery_level is "7a". *)
C8_Witness ==
  /\ Has("battery_level")
  /\ robot_status["battery_level"] = Text(<<55, 97>>)
  /\ call.op = "battery_level"
  /\ ret.kind = "raise"

---------------------------------------------------------------------------
(* Properties of the commands, checked under Spec. *)

(* C2: after any sequence of status replacements, set_fan_water_speed(v)   *)
(* hands a payload to send_command if and only if the current mode is in   *)
(* CLEANING_STATES and v is an allowed fan or mop speed; then exactly the  *)
(* one payload {set_fan_speed: v} is sent, and otherwise nothing is sent   *)
(* and the call returns normally.                                          *)
C2_FanSpeedOnlyWhileCleaning ==
  call.op = "set_fan_water_speed" =>
    LET v == call.args[1]
    IN  IF /\ Has("working_status")
           /\ robot_status["working_status"] \in CLEANING_STATES
           /\ v \in FAN_SPEEDS \cup MOP_SPEEDS
        THEN sent = <<SET_FAN_SPEED :> v>>
        ELSE sent = <<>> /\ ret = Return(None)

(* A mop speed has been set on a device that is cleaning a rectangle. *)
C2_Witness ==
  /\ call.op = "set_fan_water_speed"
  /\ robot_status = ("working_status" :> ROBOT_PLANNING_RECT)
  /\ sent = <<SET_FAN_SPEED :> MOP_SPEED_HIGH>>

(* The quotient of c by 10 rounded toward zero, stated by its remainder. *)
TowardZero(c) ==
  LET a == IF c >= 0 THEN c ELSE 0 - c
  IN  CHOOSE q \in (0 - a)..a :
        \E r \in (0 - 9)..9 : c = 10 * q + r /\ (r = 0 \/ (r > 0) = (c > 0))

(* C3: for every list of n boxes [x1, y1, x2, y2], clean_zone sends        *)
(* exactly one payload, with status PLAN_RECT, point_num 4n, and X and Y   *)
(* of length 4n holding, box after box in input order, (x1, x1, x2, x2)    *)
(* and (y1, y2, y2, y1), every coordinate divided by 10 to an integer      *)
(* (the fraction dropped); [[0, 0, 20, 30]] gives X = [0, 0, 2, 2],        *)
(* Y = [0, 3, 3, 0], point_num = 4.                                        *)
C3_CleanZoneCorners ==
  call.op = "clean_zone" =>
    /\ Len(sent) = 1
    /\ LET p == sent[1]
           b == call.args[1]
           n == Len(b)
       IN  /\ DOMAIN p = {ASK_STATUS, PLANNING_RECT_POINT_NUM,
                          PLANNING_RECT_X, PLANNING_RECT_Y}
           /\ p[ASK_STATUS] = ROBOT_PLANNING_RECT
           /\ p[PLANNING_RECT_POINT_NUM] = 4 * n
           /\ Len(p[PLANNING_RECT_X]) = 4 * n
           /\ Len(p[PLANNING_RECT_Y]) = 4 * n
           /\ \A i \in 1..n :
                /\ SubSeq(p[PLANNING_RECT_X], 4 * i - 3, 4 * i) =
                     <<TowardZero(b[i][1]), TowardZero(b[i][1]),
                       TowardZero(b[i][3]), TowardZero(b[i][3])>>
                /\ SubSeq(p[PLANNING_RECT_Y], 4 * i - 3, 4 * i) =
                     <<TowardZero(b[i][2]), TowardZero(b[i][4]),
                       TowardZero(b[i][4]), TowardZero(b[i][2])>>
           /\ b = <<(<<0, 0, 20, 30>>)>> =>
                /\ p[PLANNING_RECT_X] = <<0, 0, 2, 2>>
                /\ p[PLANNING_RECT_Y] = <<0, 3, 3, 0>>
                /\ p[PLANNING_RECT_POINT_NUM] = 4

(* clean_zone([[0, 0, 20, 30]]) has been sent. *)
C3_Witness ==
  /\ call.op = "clean_zone"
  /\ call.args[1] = <<(<<0, 0, 20, 30>>)>>
  /\ Len(sent) = 1
  /\ sent[1][PLANNING_RECT_Y] = <<0, 3, 3, 0>>

(* C4: clean_room hands a payload to the transport only when its list of   *)
(* room ids is non-empty: with an empty list nothing is sent and the call  *)
(* returns normally; with a non-empty list exactly one payload is sent,    *)
(* with status CLEAN_ROOMS and selected_zone holding one {room_id} entry   *)
(* per id, in input order.                                                 *)
C4_CleanRoomNonEmpty ==
  call.op = "clean_room" =>
    LET ids == call.args[1]
    IN  IF ids = <<>>
        THEN sent = <<>> /\ ret = Return(None)
        ELSE sent = <<(ASK_STATUS :> CLEAN_MODE_ROOMS)
                      @@ (SELECTED_ZONE :>
                            [i \in 1..Len(ids) |-> [room_id |-> ids[i]]])>>

(* C10: voice_mode(state) and undisturb_mode(state) hand a payload to the  *)
(* transport if and only if state is a switch value: then exactly the one  *)
(* payload {voice_switch: state}, respectively {undisturb_mode: state}, is *)
(* sent; otherwise nothing is sent and the call returns normally; and in   *)
(* neither case does anything the controller holds change.                 *)
C10_SwitchesOnlySwitchValues ==
  [][call'.op \in {"voice_mode", "undisturb_mode"} =>
       LET state == call'.args[1]
           field == IF call'.op = "voice_mode" THEN VOICE_SWITCH ELSE UNDISTURB_MODE
       IN  /\ IF state \in {Str("on"), Str("off")}
              THEN sent' = <<field :> state>>
              ELSE sent' = <<>> /\ ret' = Return(None)
           /\ UNCHANGED <<robot_status, map, map_image_buffer, map_camera, pending>>
    ]_vars

(* A voice_mode call with a state that is no switch value has been refused. *)
C10_Witness ==
  /\ call.op = "voice_mode"
  /\ call.args[1] = Str("toggle")
  /\ sent = <<>>
  /\ ret = Return(None)

---------------------------------------------------------------------------
(* Properties of map loading and rendering, checked under SpecMap. *)

(* The last operation was a load_maps that got an answer to its fetch. *)
LoadAnswered == call.op = "load_maps" /\ call.args[1] # None

FetchRaised == call.args[2].kind = "raise"

FetchEmpty == call.args[2] = Return(None)

DecodeRaised ==
  /\ call.args[2].kind = "return"
  /\ call.args[2].val # None
  /\ ~call.args[2].val.whole

RefreshFailed ==
  /\ call.op = "watch_state"
  /\ call.args[1] \in {Raise("CollaboratorFailure"), Raise("ValueError"),
                       Raise("KeyError")}

(* C5: a collaborator failure is never swallowed: when refresh_handler     *)
(* fails inside watch_state, or the map fetch or the map decoding fails    *)
(* inside load_maps, the operation ends in an error its caller sees.       *)
C5_FailuresReachCaller ==
  /\ RefreshFailed => ret.kind = "raise"
  /\ LoadAnswered /\ (FetchRaised \/ DecodeRaised) => ret.kind = "raise"

(* C5 as amended: when the map fetch or the map decoding fails inside      *)
(* load_maps, load_maps ends in that error, which its caller sees; when    *)
(* refresh_handler fails inside watch_state, watch_state catches the       *)
(* failure (it is logged) and returns normally.                            *)
C5_LoadFailuresReachCaller ==
  /\ RefreshFailed => ret = Return(None)
  /\ LoadAnswered /\ FetchRaised => ret = call.args[2]
  /\ LoadAnswered /\ DecodeRaised => ret = Raise("DecodeFailure")

(* watch_state has run with a failing refresh_handler. *)
C5_Witness == RefreshFailed /\ ret.kind = "return"

(* C6: whenever the most recent load_maps failed (its fetch failed or      *)
(* returned no data, or building the model from the payload failed), the   *)
(* controller holds no map, also when an earlier load_maps had succeeded.  *)
C6_FailedLoadLeavesNoMap ==
  LoadAnswered /\ (FetchRaised \/ FetchEmpty \/ DecodeRaised) => map = None

(* A render of model m published: the buffer holds m's whole image, and    *)
(* the camera registered at that moment, if any, was signalled once and    *)
(* found that image.                                                       *)
Published(m) ==
  /\ map_image_buffer' = Png(m)
  /\ signals' = IF map_camera = None
                THEN <<>>
                ELSE <<[camera |-> map_camera, image |-> Png(m)]>>

Abandoned == map_image_buffer' = map_image_buffer /\ signals' = <<>>

(* C9: under any interleaving of register_map_camera and render_map, a     *)
(* render that succeeds stores the whole image and only then signals the   *)
(* camera registered at that moment, once; without a camera it signals     *)
(* nobody and the image stays for the next read; a render that fails       *)
(* publishes nothing; and without a map render_map returns False, leaves   *)
(* the image buffer as it was and signals nobody.                          *)
C9_RenderPublishesWhole ==
  [][/\ call'.op = "render_map" =>
          IF map = None THEN ret' = Return(Bool(FALSE)) /\ Abandoned
          ELSE /\ ~call'.args[1] => ret' = Return(Bool(TRUE))
               /\ IF ret' = Return(Bool(TRUE)) THEN Published(map) ELSE Abandoned
     /\ call'.op = "load_maps" =>
          IF map' # map \/ (call'.args[2].kind = "return"
                            /\ call'.args[2].val # None
                            /\ call'.args[2].val.whole)
          THEN IF ret'.kind = "return" THEN Published(map') ELSE Abandoned
          ELSE Abandoned
     /\ map_image_buffer' # map_image_buffer =>
          call'.op \in {"render_map", "load_maps"}
    ]_vars

(* render_map has succeeded with the second camera registered. *)
C9_Witness ==
  /\ call.op = "render_map"
  /\ ret = Return(Bool(TRUE))
  /\ map_camera = Str("camera2")
  /\ signals = <<[camera |-> Str("camera2"), image |-> Png(map)]>>

====
